---- MODULE Spec2Model ----
(***************************************************************************)
(* picaresql: the statement fold (Analysis::apply), the clause             *)
(* decomposition of a query into counting steps (get_all_clause_steps and  *)
(* the add_* builders) and the insert payload analyser, as a state         *)
(* machine over parsed statement sequences.                                *)
(*                                                                         *)
(* A SQL text is a sequence of tokens (strings); Display* flatten a syntax *)
(* node to its tokens the way the parser crate's fmt::Display does, so two *)
(* texts are equal exactly when their token sequences are.                 *)
(***************************************************************************)
EXTENDS Integers, Sequences, FiniteSets, TLC

\* Bounds of the enumerated inputs.
MaxFrom == 2        \* from-items of a generated SELECT
MaxJoins == 2       \* joins of one from-item
MaxGroupBy == 2     \* GROUP BY keys
MaxCtes == 2        \* CTEs of one WITH clause
MaxStmts == 3       \* statements of a generated multi-statement source

VARIABLES
    source,          \* the SQL file: readable?, parses?, its statements
    pc,              \* position in run/analyze
    pos,             \* 1-based index of the statement the fold is at
    analysis,        \* Analysis { query_analyses, insert_analyses }
    output,          \* what run printed: None or Some(analysis)
    builder,         \* ClauseStepsBuilder { ctes, steps } of get_all_clause_steps
    cte_index,       \* 1-based index of the CTE the fold of line 147 is at
    pass,            \* "cte" | "main" | "none": who called clause_steps_for_query
    query,           \* the argument of clause_steps_for_query
    steps,           \* its local steps
    builder_select,  \* its working Select
    builder_from,    \* add_from_and_joins: the working TableWithJoins
    index,           \* add_from_and_joins: 1-based index of the from-item
    join_index,      \* add_from_and_joins: 1-based index of the next join
    group_index      \* add_group_bys: 1-based index of the next key

vars == <<source, pc, pos, analysis, output, builder, cte_index, pass, query,
          steps, builder_select, builder_from, index, join_index, group_index>>

----------------------------------------------------------------------------
\* Option<T> as a sequence of length at most one.
None == <<>>
Some(e) == <<e>>

Name(p, n) == p \o ToString(n)

RECURSIVE Flatten(_)
Flatten(ss) == IF ss = <<>> THEN <<>> ELSE Head(ss) \o Flatten(Tail(ss))

----------------------------------------------------------------------------
\* Canonical text of syntax nodes (the parser crate's fmt::Display).

RECURSIVE display_comma_separated(_)
display_comma_separated(items) ==
    IF items = <<>> THEN <<>>
    ELSE IF Len(items) = 1 THEN Head(items)
    ELSE Head(items) \o <<",">> \o display_comma_separated(Tail(items))

Atoms(exprs) == [k \in 1..Len(exprs) |-> <<exprs[k]>>]

DisplayJoin(j) == <<"JOIN", j.relation, "ON", j.on>>

DisplayTableWithJoins(t) ==
    <<t.relation>> \o Flatten([k \in 1..Len(t.joins) |-> DisplayJoin(t.joins[k])])

DisplaySelect(s) ==
    <<"SELECT">>
    \o (IF s.distinct THEN <<"DISTINCT">> ELSE <<>>)
    \o display_comma_separated(Atoms(s.projection))
    \o (IF s.from # <<>>
        THEN <<"FROM">> \o display_comma_separated(
                 [k \in 1..Len(s.from) |-> DisplayTableWithJoins(s.from[k])])
        ELSE <<>>)
    \o (IF s.selection # None THEN <<"WHERE", s.selection[1]>> ELSE <<>>)
    \o (IF s.group_by # <<>>
        THEN <<"GROUP BY">> \o display_comma_separated(Atoms(s.group_by))
        ELSE <<>>)
    \o (IF s.having # None THEN <<"HAVING", s.having[1]>> ELSE <<>>)

DisplayValues(rows) ==
    <<"VALUES">> \o display_comma_separated([k \in 1..Len(rows) |-> <<rows[k]>>])

DisplaySetExpr(b) ==
    CASE b.kind = "Select" -> DisplaySelect(b.select)
      [] b.kind = "Values" -> DisplayValues(b.rows)
      [] b.kind = "SetOperation" ->
            DisplaySelect(b.left) \o <<"UNION">> \o DisplaySelect(b.right)

RECURSIVE DisplayQuery(_)
DisplayCte(c) == <<c.alias, "AS", "(">> \o DisplayQuery(c.query) \o <<")">>

DisplayQuery(q) ==
    (IF q.ctes # <<>>
     THEN <<"WITH">> \o display_comma_separated(
              [k \in 1..Len(q.ctes) |-> DisplayCte(q.ctes[k])])
     ELSE <<>>)
    \o DisplaySetExpr(q.body)
    \o (IF q.order_by # <<>>
        THEN <<"ORDER BY">> \o display_comma_separated(Atoms(q.order_by))
        ELSE <<>>)
    \o (IF q.limit # None THEN <<"LIMIT", q.limit[1]>> ELSE <<>>)
    \o (IF q.offset # None THEN <<"OFFSET", q.offset[1], "ROWS">> ELSE <<>>)
    \o (IF q.fetch # None THEN <<q.fetch[1]>> ELSE <<>>)

DisplayStatement(st) ==
    CASE st.kind = "Query" -> DisplayQuery(st.query)
      [] st.kind = "Insert" ->
            <<"INSERT INTO", st.table_name>>
            \o (IF st.columns # <<>>
                THEN <<"(">> \o display_comma_separated(Atoms(st.columns)) \o <<")">>
                ELSE <<>>)
            \o DisplayQuery(st.source)
      [] st.kind = "Other" -> st.text

----------------------------------------------------------------------------
\* The enumerated inputs: syntax trees the parser can return.

SelectBody(s) == [kind |-> "Select", select |-> s]

MkJoin(p, i, j) == [relation |-> Name(Name(p, i) \o "j", j), on |-> "true"]

\* shape[i] is the number of joins of the i-th from-item; names carry positions.
MkFrom(p, shape) ==
    [i \in 1..Len(shape) |->
        [relation |-> Name(p, i),
         joins |-> [j \in 1..shape[i] |-> MkJoin(p, i, j)]]]

MkSelect(p, shape, hasWhere, nGroup, hasHaving, distinct) ==
    [projection |-> <<"*">>,
     from |-> MkFrom(p, shape),
     selection |-> IF hasWhere THEN Some("x = 1") ELSE None,
     group_by |-> [k \in 1..nGroup |-> Name("g", k)],
     having |-> IF hasHaving THEN Some("COUNT(*) > 1") ELSE None,
     distinct |-> distinct]

\* decorated: the query carries ORDER BY, LIMIT, OFFSET and FETCH.
MkQuery(ctes, body, decorated) ==
    [ctes |-> ctes,
     body |-> body,
     order_by |-> IF decorated THEN <<"x DESC">> ELSE <<>>,
     limit |-> IF decorated THEN Some("10") ELSE None,
     offset |-> IF decorated THEN Some("5") ELSE None,
     fetch |-> IF decorated THEN Some("FETCH FIRST 2 ROWS ONLY") ELSE None]

SetOpBody(p) ==
    [kind |-> "SetOperation",
     left |-> MkSelect(p \o "l", <<0>>, FALSE, 0, FALSE, FALSE),
     right |-> MkSelect(p \o "r", <<0>>, FALSE, 0, FALSE, FALSE)]

ValuesBody == [kind |-> "Values", rows |-> <<"(1)", "(2)">>]

FromShapes == UNION {[1..n -> 0..MaxJoins] : n \in 0..MaxFrom}

RichSelects ==
    {MkSelect("t", sh, w, g, h, d) :
        sh \in FromShapes, w \in BOOLEAN, g \in 0..MaxGroupBy,
        h \in BOOLEAN, d \in BOOLEAN}

\* A few bodies for the queries that carry CTEs.
SimpleBodies(p) ==
    {SelectBody(MkSelect(p, <<>>, FALSE, 0, FALSE, FALSE)),
     SelectBody(MkSelect(p, <<0>>, FALSE, 0, FALSE, FALSE)),
     SelectBody(MkSelect(p, <<1>>, TRUE, 1, TRUE, FALSE)),
     SetOpBody(p),
     ValuesBody}

CteKinds == {"join", "full", "setop"}

CteBody(p, kind) ==
    CASE kind = "join" -> SelectBody(MkSelect(p, <<1>>, FALSE, 0, FALSE, FALSE))
      [] kind = "full" -> SelectBody(MkSelect(p, <<0>>, TRUE, 1, TRUE, FALSE))
      [] kind = "setop" -> SetOpBody(p)

\* The CTE a CTE's inner query declares itself (a nested WITH).
NestedCte(i) ==
    [alias |-> Name("n", i),
     query |-> MkQuery(<<>>,
                 SelectBody(MkSelect(Name("n", i) \o "t", <<1>>, FALSE, 0, FALSE, FALSE)),
                 FALSE)]

MkCte(i, kind, nested) ==
    [alias |-> Name("c", i),
     query |-> MkQuery(IF nested THEN <<NestedCte(i)>> ELSE <<>>,
                       CteBody(Name("c", i) \o "t", kind), FALSE)]

CteLists ==
    UNION {{[i \in 1..n |-> MkCte(i, f[i][1], f[i][2])] :
                f \in [1..n -> CteKinds \X BOOLEAN]} : n \in 1..MaxCtes}

RichQueries ==
    {MkQuery(<<>>, SelectBody(s), s.distinct) : s \in RichSelects}
    \cup {MkQuery(<<>>, SetOpBody("t"), FALSE), MkQuery(<<>>, ValuesBody, FALSE)}
    \cup {MkQuery(cl, b, FALSE) : cl \in CteLists, b \in SimpleBodies("t")}

QueryStmt(q) == [kind |-> "Query", query |-> q]
InsertStmt(q) ==
    [kind |-> "Insert", table_name |-> "target", columns |-> <<"a">>, source |-> q]
OtherStmt == [kind |-> "Other", text |-> <<"DROP TABLE", "t1">>]

RichStatements ==
    {QueryStmt(q) : q \in RichQueries} \cup {InsertStmt(q) : q \in RichQueries}

SmallStatements ==
    {QueryStmt(MkQuery(<<>>, SelectBody(MkSelect("t", <<1>>, FALSE, 0, FALSE, FALSE)), FALSE)),
     QueryStmt(MkQuery(<<MkCte(1, "join", FALSE)>>,
                       SelectBody(MkSelect("u", <<0>>, TRUE, 0, FALSE, FALSE)), FALSE)),
     InsertStmt(MkQuery(<<>>, SelectBody(MkSelect("v", <<0>>, FALSE, 0, FALSE, FALSE)), FALSE)),
     InsertStmt(MkQuery(<<>>, ValuesBody, FALSE)),
     InsertStmt(MkQuery(<<>>, SetOpBody("w"), FALSE)),
     OtherStmt}

StatementLists ==
    UNION {[1..n -> SmallStatements] : n \in 0..MaxStmts}
    \cup {<<s>> : s \in RichStatements}

Sources ==
    {[readable |-> FALSE, parses |-> FALSE, statements |-> <<>>],
     [readable |-> TRUE, parses |-> FALSE, statements |-> <<>>]}
    \cup {[readable |-> TRUE, parses |-> TRUE, statements |-> ss] : ss \in StatementLists}

----------------------------------------------------------------------------
\* The program's pure functions.

Analysis_new == [query_analyses |-> <<>>, insert_analyses |-> <<>>]

\* Mutant: the new entry goes to the front of the list.
add_query_analysis_front(self, query_analysis) ==
    [self EXCEPT !.query_analyses = <<query_analysis>> \o @]

add_query_analysis(self, query_analysis) ==
    [self EXCEPT !.query_analyses = Append(@, query_analysis)]

add_insert_analysis(self, insert_analysis) ==
    [self EXCEPT !.insert_analyses = Append(@, insert_analysis)]

create_count_star_projection == <<"COUNT(*)">>

create_empty_count_star_select ==
    [projection |-> create_count_star_projection,
     from |-> <<>>,
     selection |-> None,
     group_by |-> <<>>,
     having |-> None,
     distinct |-> FALSE]

query_for(select, ctes) ==
    [ctes |-> ctes,
     body |-> SelectBody(select),
     order_by |-> <<>>,
     limit |-> None,
     offset |-> None,
     fetch |-> None]

query_string_for(select, ctes) == DisplayQuery(query_for(select, ctes))

\* Mutant: the inner query keeps its own WITH clause, the scope is not applied.
query_with_ctes_own(q, ctes) == q

query_with_ctes(q, ctes) == [q EXCEPT !.ctes = ctes]

ClauseStepsBuilder_new == [ctes |-> <<>>, steps |-> <<>>]

\* Mutant: the working from-item is not written back to the working select.
set_from_dropped(from_list, i, from) == from_list

\* builder_select.from[index] = builder_from.clone()
set_from(from_list, i, from) == [from_list EXCEPT ![i] = from]

\* Mutant: the steps share the working select instead of being snapshots, so
\* every step already emitted shows the select as it is now.
push_step_aliased(clause_steps, select, ctes) ==
    [k \in 1..(Len(clause_steps) + 1) |-> query_string_for(select, ctes)]

\* clause_steps.push(query_string_for(builder_select, ctes))
push_step(clause_steps, select, ctes) ==
    Append(clause_steps, query_string_for(select, ctes))

\* Mutant: the CTE steps are left out of the result.
all_steps_main_only(cte_steps, main_steps) == main_steps

\* all.extend(cte_steps); all.extend(main_steps)
all_steps(cte_steps, main_steps) == cte_steps \o main_steps

transform_select_projection_to_count(select) ==
    DisplaySelect([select EXCEPT !.projection = create_count_star_projection])

get_values_count_query(values) == <<"SELECT", ToString(Len(values))>>

\* Mutant: an unsupported source yields an empty text instead of a panic.
get_payload_count_query_lenient(q) ==
    CASE q.body.kind = "Select" ->
            [panic |-> FALSE,
             text |-> DisplaySelect([q.body.select EXCEPT !.projection = <<"COUNT(*)">>])]
      [] q.body.kind = "Values" ->
            [panic |-> FALSE, text |-> <<"SELECT", ToString(Len(q.body.rows))>>]
      [] OTHER -> [panic |-> FALSE, text |-> <<>>]

\* The String the function returns, or the panic of its last arm.
get_payload_count_query(q) ==
    CASE q.body.kind = "Select" ->
            [panic |-> FALSE, text |-> transform_select_projection_to_count(q.body.select)]
      [] q.body.kind = "Values" ->
            [panic |-> FALSE, text |-> get_values_count_query(q.body.rows)]
      [] OTHER -> [panic |-> TRUE, text |-> <<>>]

analyze_insert(table_name, src, full_statement) ==
    [insert_statement |-> DisplayStatement(full_statement),
     target_table_initial_count |-> <<"SELECT", "COUNT(*)", "FROM", table_name>>,
     payload_count |-> get_payload_count_query(src).text]

----------------------------------------------------------------------------
\* The state machine.

NoQuery == MkQuery(<<>>, [kind |-> "None"], FALSE)
NoFrom == [relation |-> "", joins |-> <<>>]

Statements == source.statements
Statement == Statements[pos]
TopQuery == Statement.query
source_select == query.body.select

locals == <<pass, query, steps, builder_select, builder_from, index, join_index, group_index>>

ResetLocals ==
    /\ pass' = "none"
    /\ query' = NoQuery
    /\ steps' = <<>>
    /\ builder_select' = create_empty_count_star_select
    /\ builder_from' = NoFrom
    /\ index' = 0
    /\ join_index' = 0
    /\ group_index' = 0

Init ==
    /\ source \in Sources
    /\ pc = "run"
    /\ pos = 0
    /\ analysis = Analysis_new
    /\ output = None
    /\ builder = ClauseStepsBuilder_new
    /\ cte_index = 0
    /\ pass = "none"
    /\ query = NoQuery
    /\ steps = <<>>
    /\ builder_select = create_empty_count_star_select
    /\ builder_from = NoFrom
    /\ index = 0
    /\ join_index = 0
    /\ group_index = 0

\* run: config.sql().unwrap()
read_sql ==
    /\ pc = "run"
    /\ pc' = IF source.readable THEN "analyze" ELSE "panicked"
    /\ UNCHANGED <<source, pos, analysis, output, builder, cte_index, locals>>

\* analyze: get_ast_for_sql(sql), whose unwrap panics on a parse error,
\* then the fold starts from Analysis::new().
get_ast_for_sql ==
    /\ pc = "analyze"
    /\ IF source.parses
       THEN pc' = "fold" /\ pos' = 1 /\ analysis' = Analysis_new
       ELSE pc' = "panicked" /\ UNCHANGED <<pos, analysis>>
    /\ UNCHANGED <<source, output, builder, cte_index, locals>>

\* Analysis::apply, Statement::Query arm: analyze_query enters
\* get_all_clause_steps with ClauseStepsBuilder::new().
apply_Query ==
    /\ pc = "fold"
    /\ pos <= Len(Statements)
    /\ Statement.kind = "Query"
    /\ builder' = ClauseStepsBuilder_new
    /\ cte_index' = 1
    /\ pc' = "ctes"
    /\ UNCHANGED <<source, pos, analysis, output, locals>>

\* Analysis::apply, Statement::Insert arm: analyze_insert as a whole.
apply_Insert ==
    /\ pc = "fold"
    /\ pos <= Len(Statements)
    /\ Statement.kind = "Insert"
    /\ IF get_payload_count_query(Statement.source).panic
       THEN pc' = "panicked" /\ UNCHANGED <<pos, analysis>>
       ELSE /\ analysis' = add_insert_analysis(analysis,
                    analyze_insert(Statement.table_name, Statement.source, Statement))
            /\ pos' = pos + 1
            /\ pc' = "fold"
    /\ UNCHANGED <<source, output, builder, cte_index, locals>>

\* Analysis::apply, the catch-all arm.
apply_Other ==
    /\ pc = "fold"
    /\ pos <= Len(Statements)
    /\ Statement.kind \notin {"Query", "Insert"}
    /\ pos' = pos + 1
    /\ UNCHANGED <<source, pc, analysis, output, builder, cte_index, locals>>

\* run: println!("{:?}", analysis) once the fold has returned.
print_analysis ==
    /\ pc = "fold"
    /\ pos > Len(Statements)
    /\ output' = Some(analysis)
    /\ pc' = "done"
    /\ UNCHANGED <<source, pos, analysis, builder, cte_index, locals>>

\* clause_steps_for_query(q), up to the first add_* call.
EnterPass(q, kind) ==
    /\ pass' = kind
    /\ query' = q
    /\ steps' = <<>>
    /\ IF q.body.kind = "Select"
       THEN /\ builder_select' = create_empty_count_star_select
            /\ index' = 1
            /\ pc' = "from"
       ELSE /\ pc' = "pass_done"
            /\ UNCHANGED <<builder_select, index>>
    /\ UNCHANGED <<source, pos, analysis, output, builder, cte_index,
                   builder_from, join_index, group_index>>

\* ClauseStepsBuilder::apply, its call of clause_steps_for_query.
BeginCtePass ==
    /\ pc = "ctes"
    /\ cte_index <= Len(TopQuery.ctes)
    /\ EnterPass(query_with_ctes(TopQuery.ctes[cte_index].query, builder.ctes), "cte")

\* get_all_clause_steps: main_steps = clause_steps_for_query(query).
BeginMainPass ==
    /\ pc = "ctes"
    /\ cte_index > Len(TopQuery.ctes)
    /\ EnterPass(TopQuery, "main")

\* add_from_and_joins: the outer loop's body up to the inner loop.
AddFrom ==
    /\ pc = "from"
    /\ index <= Len(source_select.from)
    /\ LET from == source_select.from[index]
           new_from == [relation |-> from.relation, joins |-> <<>>]
           new_select == [builder_select EXCEPT !.from = Append(@, new_from)]
       IN /\ builder_from' = new_from
          /\ builder_select' = new_select
          /\ steps' = push_step(steps, new_select, query.ctes)
    /\ join_index' = 1
    /\ pc' = "joins"
    /\ UNCHANGED <<source, pos, analysis, output, builder, cte_index, pass, query,
                   index, group_index>>

\* add_from_and_joins: one iteration of the inner loop.
AddJoin ==
    /\ pc = "joins"
    /\ join_index <= Len(source_select.from[index].joins)
    /\ LET join == source_select.from[index].joins[join_index]
           new_from == [builder_from EXCEPT !.joins = Append(@, join)]
           new_select == [builder_select EXCEPT !.from = set_from(@, index, new_from)]
       IN /\ builder_from' = new_from
          /\ builder_select' = new_select
          /\ steps' = push_step(steps, new_select, query.ctes)
    /\ join_index' = join_index + 1
    /\ UNCHANGED <<source, pc, pos, analysis, output, builder, cte_index, pass, query,
                   index, group_index>>

\* add_from_and_joins: the inner loop ends.
EndJoins ==
    /\ pc = "joins"
    /\ join_index > Len(source_select.from[index].joins)
    /\ index' = index + 1
    /\ pc' = "from"
    /\ UNCHANGED <<source, pos, analysis, output, builder, cte_index, pass, query,
                   steps, builder_select, builder_from, join_index, group_index>>

\* add_from_and_joins returns.
EndFrom ==
    /\ pc = "from"
    /\ index > Len(source_select.from)
    /\ pc' = "selection"
    /\ UNCHANGED <<source, pos, analysis, output, builder, cte_index, pass, query,
                   steps, builder_select, builder_from, index, join_index, group_index>>

add_selection ==
    /\ pc = "selection"
    /\ IF source_select.selection # None
       THEN LET new_select == [builder_select EXCEPT !.selection = source_select.selection]
            IN /\ builder_select' = new_select
               /\ steps' = push_step(steps, new_select, query.ctes)
       ELSE UNCHANGED <<builder_select, steps>>
    /\ group_index' = 1
    /\ pc' = "group_by"
    /\ UNCHANGED <<source, pos, analysis, output, builder, cte_index, pass, query,
                   builder_from, index, join_index>>

\* Mutant: the key replaces the working GROUP BY list instead of extending it.
AddGroupBy_replacing ==
    /\ pc = "group_by"
    /\ group_index <= Len(source_select.group_by)
    /\ LET new_select == [builder_select EXCEPT
                            !.group_by = <<source_select.group_by[group_index]>>]
       IN /\ builder_select' = new_select
          /\ steps' = Append(steps, DisplayQuery(query_for(new_select, query.ctes)))
    /\ group_index' = group_index + 1
    /\ UNCHANGED <<source, pc, pos, analysis, output, builder, cte_index, pass, query,
                   builder_from, index, join_index>>

\* add_group_bys: one element of the map.
AddGroupBy ==
    /\ pc = "group_by"
    /\ group_index <= Len(source_select.group_by)
    /\ LET new_select == [builder_select EXCEPT
                            !.group_by = Append(@, source_select.group_by[group_index])]
       IN /\ builder_select' = new_select
          /\ steps' = push_step(steps, new_select, query.ctes)
    /\ group_index' = group_index + 1
    /\ UNCHANGED <<source, pc, pos, analysis, output, builder, cte_index, pass, query,
                   builder_from, index, join_index>>

\* add_group_bys returns.
EndGroupBys ==
    /\ pc = "group_by"
    /\ group_index > Len(source_select.group_by)
    /\ pc' = "having"
    /\ UNCHANGED <<source, pos, analysis, output, builder, cte_index, pass, query,
                   steps, builder_select, builder_from, index, join_index, group_index>>

\* Mutant: the HAVING filter is never added.
add_having_skipped ==
    /\ pc = "having"
    /\ pc' = "pass_done"
    /\ UNCHANGED <<source, pos, analysis, output, builder, cte_index, pass, query,
                   steps, builder_select, builder_from, index, join_index, group_index>>

add_having ==
    /\ pc = "having"
    /\ IF source_select.having # None
       THEN LET new_select == [builder_select EXCEPT !.having = source_select.having]
            IN /\ builder_select' = new_select
               /\ steps' = push_step(steps, new_select, query.ctes)
       ELSE UNCHANGED <<builder_select, steps>>
    /\ pc' = "pass_done"
    /\ UNCHANGED <<source, pos, analysis, output, builder, cte_index, pass, query,
                   builder_from, index, join_index, group_index>>

\* ClauseStepsBuilder::apply after clause_steps_for_query returned.
EndCtePass ==
    /\ pc = "pass_done"
    /\ pass = "cte"
    /\ builder' = [ctes |-> Append(builder.ctes, TopQuery.ctes[cte_index]),
                   steps |-> builder.steps \o steps]
    /\ cte_index' = cte_index + 1
    /\ pc' = "ctes"
    /\ ResetLocals
    /\ UNCHANGED <<source, pos, analysis, output>>

\* get_all_clause_steps and analyze_query return; apply pushes the QueryAnalysis.
EndMainPass ==
    /\ pc = "pass_done"
    /\ pass = "main"
    /\ analysis' = add_query_analysis(analysis,
                      [query |-> DisplayQuery(TopQuery),
                       clause_steps |-> all_steps(builder.steps, steps)])
    /\ pos' = pos + 1
    /\ pc' = "fold"
    /\ builder' = ClauseStepsBuilder_new
    /\ cte_index' = 0
    /\ ResetLocals
    /\ UNCHANGED <<source, output>>

Next ==
    \/ read_sql
    \/ get_ast_for_sql
    \/ apply_Query
    \/ apply_Insert
    \/ apply_Other
    \/ print_analysis
    \/ BeginCtePass
    \/ BeginMainPass
    \/ AddFrom
    \/ AddJoin
    \/ EndJoins
    \/ EndFrom
    \/ add_selection
    \/ AddGroupBy
    \/ EndGroupBys
    \/ add_having
    \/ EndCtePass
    \/ EndMainPass

Spec == Init /\ [][Next]_vars

----------------------------------------------------------------------------
\* What the properties below are stated with.

IsQueryStmt(st) == st.kind = "Query"
IsInsertStmt(st) == st.kind = "Insert"

\* The statements the fold has gone through.
Processed == SubSeq(Statements, 1, pos - 1)
ProcessedQueries == SelectSeq(Processed, IsQueryStmt)
ProcessedInserts == SelectSeq(Processed, IsInsertStmt)

IsPrefix(a, b) == Len(a) <= Len(b) /\ SubSeq(b, 1, Len(a)) = a
Contains(text, part) ==
    \E k \in 0..(Len(text) - Len(part)) : SubSeq(text, k + 1, k + Len(part)) = part
Last(seq) == seq[Len(seq)]

RECURSIVE SumLens(_)
SumLens(from) == IF from = <<>> THEN 0 ELSE Len(Head(from).joins) + SumLens(Tail(from))

FromJoinCount(sel) == Len(sel.from) + SumLens(sel.from)
WhereCount(sel) == IF sel.selection # None THEN 1 ELSE 0
HavingCount(sel) == IF sel.having # None THEN 1 ELSE 0
ClauseElementCount(sel) ==
    FromJoinCount(sel) + WhereCount(sel) + Len(sel.group_by) + HavingCount(sel)

\* <<i, j>>: the n-th addition to FROM is join j of from-item i (j = 0: its relation).
FromPositions(from) ==
    Flatten([i \in 1..Len(from) |-> [j \in 1..(Len(from[i].joins) + 1) |-> <<i, j - 1>>]])

\* FROM after its n-th addition: earlier items whole, item i with its first j joins.
FromPrefix(from, n) ==
    LET p == FromPositions(from)[n]
    IN [i \in 1..p[1] |->
          IF i < p[1] THEN from[i]
          ELSE [relation |-> from[i].relation, joins |-> SubSeq(from[i].joins, 1, p[2])]]

CountSelect(from, selection, group_by, having) ==
    [projection |-> <<"COUNT(*)">>, from |-> from, selection |-> selection,
     group_by |-> group_by, having |-> having, distinct |-> FALSE]

\* The text of a bare count query over `select` under the WITH clause `ctes`.
StepText(select, ctes) ==
    DisplayQuery([ctes |-> ctes, body |-> SelectBody(select), order_by |-> <<>>,
                  limit |-> None, offset |-> None, fetch |-> None])

\* The working select after n clause elements of `sel`, in the order
\* from/joins, WHERE, GROUP BY keys, HAVING.
ExpectedSelectAt(sel, n) ==
    LET f == FromJoinCount(sel)
        w == WhereCount(sel)
        g == Len(sel.group_by)
        keys == IF n - f - w < 0 THEN 0 ELSE IF n - f - w > g THEN g ELSE n - f - w
    IN CountSelect(IF n <= f THEN FromPrefix(sel.from, n) ELSE sel.from,
                   IF n > f /\ w = 1 THEN sel.selection ELSE None,
                   SubSeq(sel.group_by, 1, keys),
                   IF n > f + w + g THEN sel.having ELSE None)

\* The steps of one pass over query q (its own WITH clause being its scope).
ExpectedPass(q) ==
    IF q.body.kind = "Select"
    THEN [n \in 1..ClauseElementCount(q.body.select) |->
            StepText(ExpectedSelectAt(q.body.select, n), q.ctes)]
    ELSE <<>>

\* CTE i's inner query under the scope of its predecessors only.
ScopedCte(q, i) == [q.ctes[i].query EXCEPT !.ctes = SubSeq(q.ctes, 1, i - 1)]

ExpectedCteSteps(q) == Flatten([i \in 1..Len(q.ctes) |-> ExpectedPass(ScopedCte(q, i))])

WithTokens(ctes) ==
    IF ctes = <<>> THEN <<>>
    ELSE <<"WITH">> \o display_comma_separated([k \in 1..Len(ctes) |-> DisplayCte(ctes[k])])

\* The text is a count query whose WITH clause is exactly `ctes`.
CarriesExactly(text, ctes) ==
    LET w == WithTokens(ctes)
    IN /\ Len(text) >= Len(w) + 2
       /\ SubSeq(text, 1, Len(w)) = w
       /\ text[Len(w) + 1] = "SELECT"
       /\ text[Len(w) + 2] = "COUNT(*)"

InPass == pc \in {"from", "joins", "selection", "group_by", "having", "pass_done"}
InDecomposition == pc = "ctes" \/ InPass
Emitted == builder.steps \o steps

UnsupportedInsert(st) ==
    st.kind = "Insert" /\ st.source.body.kind \notin {"Select", "Values"}

----------------------------------------------------------------------------
\* C1: whenever the fold stands between two statements (or has returned), the
\* analysis holds exactly one QueryAnalysis per Query statement gone through and
\* one InsertAnalysis per Insert statement gone through, each list in source
\* order of its own kind; other statements add nothing.
C1_OneEntryPerStatementInOrder ==
    pc \in {"fold", "done"} =>
        /\ Len(analysis.query_analyses) = Len(ProcessedQueries)
        /\ \A k \in 1..Len(ProcessedQueries) :
              analysis.query_analyses[k].query = DisplayStatement(ProcessedQueries[k])
        /\ Len(analysis.insert_analyses) = Len(ProcessedInserts)
        /\ \A k \in 1..Len(ProcessedInserts) :
              analysis.insert_analyses[k].insert_statement
                  = DisplayStatement(ProcessedInserts[k])
        /\ pc = "done" => pos - 1 = Len(Statements)

\* Two different queries around a DROP TABLE, all analysed.
C1_Witness ==
    /\ pc = "done"
    /\ Len(Statements) = 3
    /\ Statements[1].kind = "Query"
    /\ Statements[2].kind = "Other"
    /\ Statements[3].kind = "Query"
    /\ Statements[1] # Statements[3]
    /\ Len(analysis.query_analyses) = 2

\* C2: when add_from_and_joins has returned, the pass holds one step per
\* from-item and one per join, left to right; the n-th shows FROM after its n-th
\* addition (earlier items with all their joins, the current item with the joins
\* added so far, nothing later).
C2_OneStepPerFromItemAndJoin ==
    pc = "selection" =>
        /\ Len(steps) = FromJoinCount(source_select)
        /\ \A n \in 1..Len(steps) :
              steps[n] = StepText(
                  CountSelect(FromPrefix(source_select.from, n), None, <<>>, None),
                  query.ctes)

\* Two from-items, the first with two joins, all added.
C2_Witness ==
    /\ pc = "selection"
    /\ Len(source_select.from) = 2
    /\ Len(source_select.from[1].joins) = 2
    /\ Len(steps) >= 4

\* C3: a finished pass over a SelectBody holds the from/join steps, then the
\* WHERE step if there is a filter, then one step per GROUP BY key (the k-th with
\* the first k keys), then the HAVING step if there is one; every step keeps what
\* the steps before it added. With an empty from-list the clause steps are still
\* there, over an empty FROM.
C3_ClauseStepsInFixedOrder ==
    (pc = "pass_done" /\ query.body.kind = "Select") =>
        /\ Len(steps) = ClauseElementCount(source_select)
        /\ \A n \in 1..Len(steps) :
              steps[n] = StepText(ExpectedSelectAt(source_select, n), query.ctes)
        /\ (source_select.from = <<>> /\ source_select.selection # None) =>
              steps[1] = WithTokens(query.ctes)
                         \o <<"SELECT", "COUNT(*)", "WHERE", source_select.selection[1]>>

\* A join, a filter, two grouping keys and HAVING, all added.
C3_Witness ==
    /\ pc = "pass_done"
    /\ query.body.kind = "Select"
    /\ FromJoinCount(source_select) >= 2
    /\ source_select.selection # None
    /\ Len(source_select.group_by) = 2
    /\ source_select.having # None
    /\ Len(steps) = FromJoinCount(source_select) + 4

\* C4: the clause steps of a query with CTEs c_1..c_n are the steps of c_1, ...,
\* c_n in declaration order and then the main-body steps; every step of c_i's
\* pass carries a WITH clause of exactly c_1..c_(i-1), every main-body step one
\* of exactly c_1..c_n.
C4_CteStepsThenMainUnderPredecessors ==
    /\ \A k \in 1..Len(ProcessedQueries) :
          (pc \in {"fold", "done"} /\ k <= Len(analysis.query_analyses)) =>
              analysis.query_analyses[k].clause_steps
                  = ExpectedCteSteps(ProcessedQueries[k].query)
                    \o ExpectedPass(ProcessedQueries[k].query)
    /\ (pc = "pass_done" /\ pass = "cte") =>
          /\ builder.ctes = SubSeq(TopQuery.ctes, 1, cte_index - 1)
          /\ \A n \in 1..Len(steps) :
                CarriesExactly(steps[n], SubSeq(TopQuery.ctes, 1, cte_index - 1))
    /\ (pc = "pass_done" /\ pass = "main") =>
          \A n \in 1..Len(steps) : CarriesExactly(steps[n], TopQuery.ctes)

\* The pass of the second of two CTEs has emitted steps.
C4_Witness ==
    /\ pc = "pass_done"
    /\ pass = "cte"
    /\ cte_index = 2
    /\ Len(TopQuery.ctes) = 2
    /\ builder.steps # <<>>
    /\ steps # <<>>

\* C5: the payload count of an INSERT ... SELECT is the source query with its
\* projection replaced by COUNT(*): the WITH clause, FROM, WHERE, GROUP BY and
\* HAVING of the source are all in it.
C5_PayloadCountKeepsWithClause ==
    pc \in {"fold", "done"} =>
        \A k \in 1..Len(ProcessedInserts) :
            LET src == ProcessedInserts[k].source
            IN (k <= Len(analysis.insert_analyses) /\ src.body.kind = "Select") =>
                  analysis.insert_analyses[k].payload_count
                      = WithTokens(src.ctes)
                        \o DisplaySelect([src.body.select EXCEPT
                                           !.projection = <<"COUNT(*)">>])

\* C6 as stated: a query whose body is not a SelectBody has no clause steps,
\* with or without a WITH clause.
C6_NonSelectBodyHasNoSteps ==
    pc \in {"fold", "done"} =>
        \A k \in 1..Len(ProcessedQueries) :
            (k <= Len(analysis.query_analyses)
             /\ ProcessedQueries[k].query.body.kind # "Select") =>
                analysis.query_analyses[k].clause_steps = <<>>

\* C6 amended: for a query whose body is not a SelectBody the main-body pass
\* emits nothing, so its clause steps are exactly the steps of its CTEs; without
\* a WITH clause the list is empty.
C6_NonSelectBodyHasOnlyCteSteps ==
    /\ (pc = "pass_done" /\ pass = "main" /\ query.body.kind # "Select") => steps = <<>>
    /\ pc \in {"fold", "done"} =>
          \A k \in 1..Len(ProcessedQueries) :
              LET q == ProcessedQueries[k].query
              IN (k <= Len(analysis.query_analyses) /\ q.body.kind # "Select") =>
                    /\ analysis.query_analyses[k].clause_steps = ExpectedCteSteps(q)
                    /\ q.ctes = <<>> => analysis.query_analyses[k].clause_steps = <<>>

\* A set operation under a WITH clause, analysed, with the CTE's steps.
C6_Witness ==
    /\ pc = "fold"
    /\ pos = 2
    /\ Statements[1].kind = "Query"
    /\ Statements[1].query.body.kind = "SetOperation"
    /\ Statements[1].query.ctes # <<>>
    /\ Len(analysis.query_analyses) = 1
    /\ analysis.query_analyses[1].clause_steps # <<>>

\* C7: something is printed only when the run is done, and then it is the
\* analysis of every statement; a failed run prints nothing. The run fails
\* exactly when the file is unreadable, the source does not parse, or some INSERT
\* has a source that is neither a SELECT nor a VALUES list.
C7_AllOrNothing ==
    LET fails == \/ ~source.readable
                 \/ ~source.parses
                 \/ \E k \in 1..Len(Statements) : UnsupportedInsert(Statements[k])
    IN /\ output # None =>
            /\ pc = "done"
            /\ output = Some(analysis)
            /\ Len(analysis.query_analyses)
                   = Len(SelectSeq(Statements, IsQueryStmt))
            /\ Len(analysis.insert_analyses)
                   = Len(SelectSeq(Statements, IsInsertStmt))
       /\ pc = "panicked" => (output = None /\ fails)
       /\ pc = "done" => (output # None /\ ~fails)

\* The run died at an INSERT after analysing a query, and printed nothing.
C7_Witness ==
    /\ pc = "panicked"
    /\ pos >= 2
    /\ UnsupportedInsert(Statements[pos])
    /\ analysis.query_analyses # <<>>
    /\ output = None

\* C8: when a CTE's inner query declares CTEs itself, the steps of that inner
\* query carry the nested CTEs (with the outer predecessors), and the nested
\* CTEs contribute steps of their own.
C8_NestedCtesCarriedAndDecomposed ==
    (pc = "pass_done" /\ pass = "cte") =>
        LET inner == TopQuery.ctes[cte_index].query
        IN (inner.ctes # <<>> /\ inner.body.kind = "Select") =>
              /\ \A n \in 1..Len(steps) :
                    \A c \in 1..Len(inner.ctes) :
                        Contains(steps[n], DisplayCte(inner.ctes[c]))
              /\ \A c \in 1..Len(inner.ctes) :
                    \A n \in 1..Len(ExpectedPass(inner.ctes[c].query)) :
                        \E m \in 1..Len(Emitted) :
                            Emitted[m] = ExpectedPass(inner.ctes[c].query)[n]

\* C9: within the decomposition of one query the emitted steps only grow at the
\* end (what was emitted keeps its text and place, up to the list the
\* QueryAnalysis gets), the query a pass works on stays as it is, and the source
\* is never changed.
C9_StepsOnlyAppended ==
    [][/\ source' = source
       /\ InDecomposition =>
            /\ InDecomposition' => IsPrefix(Emitted, Emitted')
            /\ ~InDecomposition' =>
                  /\ analysis'.query_analyses # <<>>
                  /\ IsPrefix(Emitted, Last(analysis'.query_analyses).clause_steps)
            /\ (InPass /\ InPass') => query' = query
      ]_vars

\* A join has overwritten from[index] in a pass that follows a CTE's steps.
C9_Witness ==
    /\ pc = "joins"
    /\ join_index = 2
    /\ Len(steps) >= 2
    /\ builder.steps # <<>>

\* C10: the last main-body step of a top-level SELECT with at least one clause
\* element is the original query with its projection replaced by COUNT(*), its
\* distinct flag cleared and ORDER BY/LIMIT/OFFSET/FETCH dropped; without any
\* clause element the main-body pass emits nothing.
C10_LastStepIsWholeQueryAsCount ==
    (pc = "pass_done" /\ pass = "main" /\ query.body.kind = "Select") =>
        IF ClauseElementCount(TopQuery.body.select) > 0
        THEN /\ steps # <<>>
             /\ Last(steps) = DisplayQuery(
                    [TopQuery EXCEPT !.body.select.projection = <<"COUNT(*)">>,
                                     !.body.select.distinct = FALSE,
                                     !.order_by = <<>>,
                                     !.limit = None,
                                     !.offset = None,
                                     !.fetch = None])
        ELSE steps = <<>>

\* A DISTINCT query with ORDER BY and LIMIT, joins, filter, keys and HAVING.
C10_Witness ==
    /\ pc = "pass_done"
    /\ pass = "main"
    /\ query.body.kind = "Select"
    /\ TopQuery.body.select.distinct
    /\ TopQuery.order_by # <<>>
    /\ TopQuery.limit # None
    /\ TopQuery.body.select.having # None
    /\ Len(steps) >= 5

====
